---- MODULE Spec2Model ----
(***************************************************************************)
(* A model of sosistab's forward error correction codec (fec.rs) and of    *)
(* its stream multiplexer actor (mux/multiplex_actor.rs).                  *)
(*                                                                         *)
(*   SpecFec   one FrameEncoder::encode call, a FrameDecoder::new for the  *)
(*             block it produced, and any sequence of decode calls.        *)
(*   SpecRate  FrameEncoder::repair_len on run lengths up to 255.          *)
(*   SpecMux   the multiplex actor, its open-request children, the         *)
(*             streams' death callbacks and the channel consumers.         *)
(***************************************************************************)
EXTENDS Integers, Sequences, FiniteSets, TLC

\* ------------------------------------------------------------------ bounds
\* Largest number of packets in the encoded block.
MaxK == 3
\* Largest packet body length.
MaxLen == 1
\* Largest additional_len at which the CDF search of repair_len may stop.
MaxAdd == 3
\* Largest number of decode calls on the decoder.
MaxCalls == 4
\* Largest number of memoised rate_table entries in SpecRate.
MaxEntries == 2

\* the longest shard given to post_decode on its own
MaxRaw == 3

\* The stream ids are 0..IdSpace-1 (the id space of the u16 stream_id, scaled).
IdSpace == 3
\* The capacity of conn_accept_send, which the caller of multiplex creates.
AcceptCap == 1
\* The capacity of urel_recv_send, which the caller of multiplex creates.
UrelCap == 1
\* The capacity of glob_send (bounded(1000) in the source, scaled).
GlobCap == 1
\* Largest number of frames the session delivers.
MaxRecv == 2
\* Largest number of open requests.
MaxOpens == 1

\* ------------------------------------------------------- program constants
\* The largest total shard count of the Reed-Solomon library (fec.rs:88).
RsMaxShards == 255
\* The largest total shard count a decoder reconstructs (fec.rs:122).
DecoderMaxShards == 128
\* The largest packet length (fec.rs:216).
MaxPktLen == 65535

VARIABLES
    \* FrameEncoder
    rate_table,     \* (measured_loss, run_len) -> memoised search result
    rs_encoders,    \* the (data_shards, parity_shards) with a pooled encoder
    \* the last encode call: its input and its output
    pkts,
    shards,
    \* the last repair_len call: [loss, run_len, m], and what each key gave first
    lastRepair,
    firstRepair,
    \* FrameDecoder (NoDecoder before FrameDecoder::new)
    dec,
    \* the decode calls made so far
    ncalls,         \* how many
    lastIdx,        \* pkt_idx of the last one
    lastLong,       \* whether its pkt had one byte too many
    ret,            \* what the last one returned
    fed,            \* the pkt_idx values passed so far
    gotSome,        \* some call so far returned Some(_)
    clean,          \* every call so far fed the encoder's shard of a new index
    inOrder,        \* call i (from 0) fed the encoder's shard i
    out,            \* the packets returned so far
    attempted,      \* some call reached rs_decoder.reconstruct
    rawIn,          \* the shard last given to post_decode on its own
    pdOut,          \* what post_decode returned for it
    \* the multiplex actor
    pc,             \* where the actor's task is
    pending,        \* the stream recv_evt holds between its steps (0: none)
    tab,            \* ConnTable.sid_to_stream: stream_id -> stream (0: no entry)
    streams,        \* every RelConn created so far
    children,       \* the tasks spawned for open requests
    accept_q,       \* conn_accept_send
    glob_q,         \* glob_send / glob_recv
    dead_q,         \* dead_send / dead_recv
    open_q,         \* conn_open_recv: the requests waiting
    urel_q,         \* urel_recv_send: the payloads waiting
    \* what happened so far
    nrecv,          \* the frames the session delivered
    opens,          \* the open requests made
    lastFrame,      \* the frame the step just taken took from the session
    lastSent,       \* the frames the step just taken passed to send_bytes
    synCount,       \* per stream_id: the inbound Syn frames handled
    synAcks,        \* per stream_id: the SynAck frames of the REACCEPT branch
    created,        \* per stream_id: the entries stored by the ACCEPT branch
    delivered,      \* per stream_id: the front-handles conn_accept_send took
    tainted,        \* per stream_id: a child chose it, or a stream with it died
    \* the far ends of the actor's channels, and how multiplex returned
    open_closed,    \* every sender of conn_open_recv was dropped
    accept_closed,  \* the receiver of conn_accept_send was dropped
    urel_closed,    \* the receiver of urel_recv_send was dropped
    err             \* the error multiplex returned ("": it is running)

fecVars == <<rate_table, rs_encoders, pkts, shards, lastRepair, firstRepair, dec,
             ncalls, lastIdx, lastLong, ret, fed, gotSome, clean, inOrder, out,
             attempted, rawIn, pdOut>>

muxVars == <<pc, pending, tab, streams, children, accept_q, glob_q, dead_q, open_q,
             urel_q, nrecv, opens, lastFrame, lastSent, synCount, synAcks, created,
             delivered, tainted, open_closed, accept_closed, urel_closed, err>>

\* The far ends of the channels.
chanVars == <<open_closed, accept_closed, urel_closed>>

vars == <<fecVars, muxVars>>

Min(a, b) == IF a <= b THEN a ELSE b

Max(a, b) == IF a >= b THEN a ELSE b

\* ------------------------------------------------------ Option and results
None == [tag |-> "None", val |-> <<>>]

Some(v) == [tag |-> "Some", val |-> v]

\* A panic (an index or slice out of range, a failed assert!) aborts the call.
Panic == [tag |-> "Panic", val |-> <<>>]

\* ----------------------------------------------------------- GF(2^8) bytes
RECURSIVE BitXor(_, _)
BitXor(a, b) ==
    IF a = 0 THEN b
    ELSE IF b = 0 THEN a
    ELSE ((a + b) % 2) + 2 * BitXor(a \div 2, b \div 2)

\* GF(2^8) modulo x^8 + x^4 + x^3 + x^2 + 1 (galois_8), in which 2 generates
\* the nonzero elements: GFExp[n] = 2^n and GFLog is its inverse.
XTime(a) == IF 2 * a >= 256 THEN BitXor(2 * a, 285) ELSE 2 * a

\* Shift-and-add multiplication, used to build the tables.
RECURSIVE MulSlow(_, _)
MulSlow(a, b) ==
    IF a = 0 \/ b = 0 THEN 0
    ELSE LET rest == MulSlow(XTime(a), b \div 2)
         IN  IF b % 2 = 1 THEN BitXor(a, rest) ELSE rest

RECURSIVE Pow2(_)
Pow2(n) ==
    IF n = 0 THEN 1
    ELSE IF n % 2 = 1 THEN XTime(Pow2(n - 1))
    ELSE LET h == Pow2(n \div 2) IN MulSlow(h, h)

GFExp == [n \in 0..254 |-> Pow2(n)]

GFLog == [a \in 1..255 |-> CHOOSE n \in 0..254 : GFExp[n] = a]

GFMul(a, b) ==
    IF a = 0 \/ b = 0 THEN 0 ELSE GFExp[(GFLog[a] + GFLog[b]) % 255]

GFInv(a) == GFExp[(255 - GFLog[a]) % 255]

RECURSIVE XorAll(_)
XorAll(s) == IF s = <<>> THEN 0 ELSE BitXor(Head(s), XorAll(Tail(s)))

\* The elements of a finite set of numbers in increasing order.
RECURSIVE Sorted(_)
Sorted(S) ==
    IF S = {} THEN <<>>
    ELSE LET lo == CHOOSE x \in S : \A y \in S : x <= y
         IN  <<lo>> \o Sorted(S \ {lo})

Zeros(n) == [i \in 1..n |-> 0]

\* ------------------------------------------- the Reed-Solomon erasure code
\* galois_8::ReedSolomon is a systematic MDS code over GF(2^8): the data
\* shards are kept and each parity byte is a fixed GF(2^8)-linear combination
\* of the data bytes at the same offset. The combination used here is a
\* Cauchy matrix, every square submatrix of which is invertible.
Coef(k, j, i) == GFInv(BitXor(k + j, i))

\* ReedSolomon::encode: the m parity shards of the k data shards.
RSEncode(data, m) ==
    LET k == Len(data)
        L == Len(data[1])
    IN  [j \in 1..m |->
            [p \in 1..L |->
                XorAll([i \in 1..k |-> GFMul(Coef(k, j - 1, i - 1), data[i][p])])]]

RemoveAt(s, i) == SubSeq(s, 1, i - 1) \o SubSeq(s, i + 1, Len(s))

\* The determinant of the submatrix of M on rows and cols (characteristic 2:
\* the Laplace expansion has no signs).
RECURSIVE Det(_, _, _)
Det(M, rows, cols) ==
    IF rows = <<>> THEN 1
    ELSE XorAll([j \in 1..Len(cols) |->
                    GFMul(M[rows[1]][cols[j]], Det(M, Tail(rows), RemoveAt(cols, j)))])

\* ReedSolomon::reconstruct on (shard, present) pairs: an error when the
\* shards are empty or fewer than k are present; otherwise every absent shard
\* is recomputed from the present data shards and the first present parity
\* shards.
RSReconstruct(k, m, slots, pres) ==
    LET n == k + m
        have == {i \in 1..Len(slots) : pres[i]}
        L == IF have = {} THEN 0 ELSE Len(slots[CHOOSE i \in have : TRUE])
    IN  IF Len(slots) # n \/ L = 0 \/ \E i \in have : Len(slots[i]) # L
            THEN [ok |-> FALSE, slots |-> slots]
        ELSE IF Cardinality(have) = n THEN [ok |-> TRUE, slots |-> slots]
        ELSE IF Cardinality(have) < k THEN [ok |-> FALSE, slots |-> slots]
        ELSE
            LET miss == Sorted({i \in 1..k : ~pres[i]})
                t == Len(miss)
                rows == SubSeq(Sorted({i \in (k + 1)..n : pres[i]}), 1, t)
                M == [r \in 1..t |-> [q \in 1..t |->
                         Coef(k, rows[r] - k - 1, miss[q] - 1)]]
                ix == [i \in 1..t |-> i]
                det == Det(M, ix, ix)
                inv == [q \in 1..t |-> [r \in 1..t |->
                         GFMul(GFInv(det), Det(M, RemoveAt(ix, r), RemoveAt(ix, q)))]]
                known == Sorted({i \in 1..k : pres[i]})
                syn(r, p) ==
                    BitXor(slots[rows[r]][p],
                           XorAll([c \in 1..Len(known) |->
                               GFMul(Coef(k, rows[r] - k - 1, known[c] - 1),
                                     slots[known[c]][p])]))
                pos(i) == CHOOSE q \in 1..t : miss[q] = i
                data == [i \in 1..k |->
                            IF pres[i] THEN slots[i]
                            ELSE [p \in 1..L |->
                                    XorAll([r \in 1..t |->
                                        GFMul(inv[pos(i)][r], syn(r, p))])]]
                parity == RSEncode(data, m)
            IN  [ok |-> TRUE,
                 slots |-> [i \in 1..n |->
                              IF i <= k THEN data[i]
                              ELSE IF pres[i] THEN slots[i] ELSE parity[i - k]]]

\* ----------------------------------------------------------------- framing
le16(n) == <<n % 256, (n \div 256) % 256>>

pre_encode_bigendian(pkt, len) ==
    <<(Len(pkt) \div 256) % 256, Len(pkt) % 256>> \o pkt \o Zeros(len - Len(pkt) - 2)

\* pre_encode: the asserts hold for every packet the model encodes
\* (Len(pkt) <= MaxPktLen and Len(pkt) + 2 <= len).
pre_encode(pkt, len) == le16(Len(pkt)) \o pkt \o Zeros(len - Len(pkt) - 2)

\* post_decode: Bytes::slice panics when the range ends past the buffer.
post_decode(raw) ==
    IF Len(raw) < 2 THEN None
    ELSE LET body_len == raw[1] + 256 * raw[2]
         IN  IF 2 + body_len > Len(raw) THEN Panic
             ELSE Some(SubSeq(raw, 3, 2 + body_len))

\* ------------------------------------------------------------ FrameEncoder
\* The value the CDF search returns when its condition first holds at
\* additional_len (the probability crate decides where; the model draws it).
SearchResult(additional_len) ==
    IF additional_len >= 1 THEN additional_len - 1 ELSE 0

ClampNoLibraryCap(raw, run_len) == Min(raw, run_len)

\* .min(255 - run_len).min(run_len)
Clamp(raw, run_len) == Min(Min(raw, RsMaxShards - run_len), run_len)

\* repair_len: the table after the call and the parity count.
repair_len(table, measured_loss, run_len, additional_len) ==
    LET key == <<measured_loss, run_len>>
        table2 == IF key \in DOMAIN table THEN table
                  ELSE table @@ (key :> SearchResult(additional_len))
    IN  [table |-> table2, m |-> Clamp(table2[key], run_len)]

RECURSIVE MaxOf(_)
MaxOf(s) == IF Len(s) = 1 THEN s[1] ELSE Max(s[1], MaxOf(Tail(s)))

\* encode: the table and the encoder pool after the call, and the shards.
encode(table, pool, measured_loss, ps, additional_len) ==
    LET max_length == MaxOf([i \in 1..Len(ps) |-> Len(ps[i])])
        padded_pkts == [i \in 1..Len(ps) |-> pre_encode(ps[i], max_length + 2)]
        data_shards == Len(ps)
        rl == repair_len(table, measured_loss, data_shards, additional_len)
        parity_shards == rl.m
    IN  [table |-> rl.table,
         pool |-> IF parity_shards > 0
                  THEN pool \cup {<<data_shards, parity_shards>>} ELSE pool,
         shards |-> IF parity_shards > 0
                    THEN padded_pkts \o RSEncode(padded_pkts, parity_shards)
                    ELSE padded_pkts]

\* ------------------------------------------------------------ FrameDecoder
NoDecoder == [data_shards |-> 0]

\* FrameDecoder::new
FrameDecoderNew(data_shards, parity_shards) ==
    [data_shards |-> data_shards,
     parity_shards |-> parity_shards,
     present_count |-> 0,
     space |-> <<>>,
     present |-> [i \in 1..(data_shards + parity_shards) |-> FALSE],
     rs_decoder |-> parity_shards > 0
                    /\ data_shards + parity_shards <= DecoderMaxShards,
     done |-> FALSE]

\* good_pkts: data_shards once done, else the data shards present.
good_pkts(d) ==
    IF d.done THEN d.data_shards
    ELSE Min(Cardinality({i \in 1..d.data_shards : d.present[i]}), d.data_shards)

lost_pkts(d) == d.data_shards - good_pkts(d)

\* The first thing decode does with parity: the buffers are allocated when
\* space is empty, with the length of this pkt.
Allocated(d, pkt) ==
    IF d.space = <<>>
    THEN [d EXCEPT !.space =
            [i \in 1..(d.data_shards + d.parity_shards) |-> Zeros(Len(pkt))]]
    ELSE d

InadmissibleIgnoringDone(d, pkt, pkt_idx) ==
    \/ pkt_idx > Len(d.space)
    \/ pkt_idx > Len(d.present)
    \/ Len(d.space[pkt_idx + 1]) # Len(pkt)

\* The second early return of decode (pkt_idx < Len(d.space) here).
Inadmissible(d, pkt, pkt_idx) ==
    \/ d.done
    \/ pkt_idx > Len(d.space)
    \/ pkt_idx > Len(d.present)
    \/ Len(d.space[pkt_idx + 1]) # Len(pkt)

\* The shard is copied into its slot and counted once.
Admitted(d, pkt, pkt_idx) ==
    [d EXCEPT !.space[pkt_idx + 1] = pkt,
              !.present_count = IF d.present[pkt_idx + 1] THEN @ ELSE @ + 1,
              !.present[pkt_idx + 1] = TRUE]

TooFewOffByOne(d) == d.present_count + 1 < d.data_shards

\* "don't even attempt yet"
TooFew(d) == d.present_count < d.data_shards

\* The packets of the data slots that were absent: filter_map drops a slot
\* whose post_decode is None; a panic in post_decode aborts the call.
RECURSIVE AbsentOrPresent(_, _, _)
AbsentOrPresent(slots, pres, n) ==
    IF n = 0 THEN <<>>
    ELSE AbsentOrPresent(slots, pres, n - 1) \o <<post_decode(slots[n])>>

RECURSIVE Absent(_, _, _)
Absent(slots, pres, n) ==
    IF n = 0 THEN <<>>
    ELSE Absent(slots, pres, n - 1) \o
         (IF pres[n] THEN <<>> ELSE <<post_decode(slots[n])>>)

\* The reconstruction: None from the ? when there is no decoder or the
\* library reports an error; otherwise done, the buffers drained.
Reconstruct(d) ==
    IF ~d.rs_decoder THEN [dec |-> d, ret |-> None]
    ELSE LET r == RSReconstruct(d.data_shards, d.parity_shards, d.space, d.present)
             res == Absent(r.slots, d.present, d.data_shards)
         IN  IF ~r.ok THEN [dec |-> d, ret |-> None]
             ELSE IF \E i \in 1..Len(res) : res[i].tag = "Panic"
                 THEN [dec |-> [d EXCEPT !.space = <<>>, !.done = TRUE], ret |-> Panic]
             ELSE [dec |-> [d EXCEPT !.space = <<>>, !.done = TRUE],
                   ret |-> Some([i \in 1..Len(SelectSeq(res, LAMBDA x : x.tag = "Some"))
                                  |-> SelectSeq(res, LAMBDA x : x.tag = "Some")[i].val])]

\* Some(vec![post_decode(..)?])
Single(pd) == IF pd.tag = "Some" THEN Some(<<pd.val>>) ELSE pd

\* decode: the decoder after the call, what the call returned, and whether
\* it reached the reconstruction.
decode(d, pkt, pkt_idx) ==
    IF d.parity_shards = 0
    THEN [dec |-> [d EXCEPT !.done = TRUE], ret |-> Single(post_decode(pkt)),
          attempted |-> FALSE]
    ELSE LET d1 == Allocated(d, pkt)
         IN  IF Len(d1.space) <= pkt_idx
             THEN [dec |-> d1, ret |-> None, attempted |-> FALSE]
             ELSE IF Inadmissible(d1, pkt, pkt_idx)
             THEN [dec |-> d1, ret |-> None, attempted |-> FALSE]
             ELSE LET d2 == Admitted(d1, pkt, pkt_idx)
                  IN  IF pkt_idx < d2.data_shards
                      THEN [dec |-> d2,
                            ret |-> Single(post_decode(d2.space[pkt_idx + 1])),
                            attempted |-> FALSE]
                      ELSE IF TooFew(d2)
                      THEN [dec |-> d2, ret |-> None, attempted |-> FALSE]
                      ELSE Reconstruct(d2) @@ [attempted |-> TRUE]

\* ------------------------------------------------------------------ inputs
\* measured_loss values (u8).
Losses == {26}

\* Packet i of the block with a body of the given length: distinct bytes.
Body(i, len) == [j \in 1..len |-> 16 * i + j]

\* Blocks of 1..MaxK packets: the body lengths rotate through 0..MaxLen, or
\* are all MaxLen (no padding).
PacketLists ==
    UNION {{[i \in 1..k |-> Body(i, (i + s) % (MaxLen + 1))] : s \in 0..MaxLen}
           \cup {[i \in 1..k |-> Body(i, MaxLen)]}
           : k \in 1..MaxK}

\* Run lengths for repair_len alone: small ones and the ones at which
\* 255 - run_len is the smaller cap.
RunLens == {1, 2, 127, 128, 200, 254, 255}

\* ------------------------------------------------------------------- state
InitFec ==
    /\ rate_table = <<>>
    /\ rs_encoders = {}
    /\ pkts = <<>>
    /\ shards = <<>>
    /\ lastRepair = [loss |-> 0, run_len |-> 0, m |-> 0]
    /\ firstRepair = <<>>
    /\ dec = NoDecoder
    /\ ncalls = 0
    /\ lastIdx = 0
    /\ lastLong = FALSE
    /\ ret = None
    /\ fed = {}
    /\ gotSome = FALSE
    /\ clean = TRUE
    /\ inOrder = TRUE
    /\ out = {}
    /\ attempted = FALSE
    /\ rawIn = <<>>
    /\ pdOut = None

\* FrameEncoder::encode(measured_loss, ps)
Encode(measured_loss, ps, additional_len) ==
    /\ shards = <<>>
    /\ \A i \in 1..Len(ps) : Len(ps[i]) <= MaxPktLen
    /\ LET e == encode(rate_table, rs_encoders, measured_loss, ps, additional_len)
       IN  /\ rate_table' = e.table
           /\ rs_encoders' = e.pool
           /\ shards' = e.shards
    /\ pkts' = ps
    /\ UNCHANGED <<lastRepair, firstRepair, dec, ncalls, lastIdx, lastLong, ret, fed, gotSome,
                   clean, inOrder, out, attempted>>
    /\ UNCHANGED <<rawIn, pdOut>>
    /\ UNCHANGED muxVars

\* FrameDecoder::new for the block the encoder produced
NewDecoder ==
    /\ shards # <<>>
    /\ dec = NoDecoder
    /\ dec' = FrameDecoderNew(Len(pkts), Len(shards) - Len(pkts))
    /\ UNCHANGED <<rate_table, rs_encoders, pkts, shards, lastRepair, firstRepair,
                   ncalls, lastIdx, lastLong, ret, fed, gotSome, clean, inOrder, out, attempted>>
    /\ UNCHANGED <<rawIn, pdOut>>
    /\ UNCHANGED muxVars

RECURSIVE Range(_)
Range(s) == IF s = <<>> THEN {} ELSE {Head(s)} \cup Range(Tail(s))

\* FrameDecoder::decode(pkt, pkt_idx). pkt is the encoder's shard for
\* pkt_idx (shard 0 when pkt_idx is past the block), or that shard with one
\* more byte of padding when long.
Decode(pkt_idx, long) ==
    /\ dec # NoDecoder
    /\ pkt_idx <= Len(shards)
    /\ ncalls < MaxCalls
    /\ ret.tag # "Panic"
    /\ LET good == pkt_idx < Len(shards) /\ ~long
           base == IF pkt_idx < Len(shards) THEN shards[pkt_idx + 1] ELSE shards[1]
           pkt == IF long THEN base \o <<0>> ELSE base
       IN  \E r \in {decode(dec, pkt, pkt_idx)} :
               /\ dec' = r.dec
               /\ ret' = r.ret
               /\ attempted' = (attempted \/ r.attempted)
               /\ lastLong' = long
               /\ fed' = fed \cup {pkt_idx}
               /\ gotSome' = (gotSome \/ r.ret.tag = "Some")
               /\ clean' = (clean /\ good /\ pkt_idx \notin fed)
               /\ inOrder' = (inOrder /\ good /\ pkt_idx = ncalls)
               /\ out' = IF r.ret.tag = "Some" THEN out \cup Range(r.ret.val) ELSE out
    /\ lastIdx' = pkt_idx
    /\ ncalls' = ncalls + 1
    /\ UNCHANGED <<rate_table, rs_encoders, pkts, shards, lastRepair, firstRepair>>
    /\ UNCHANGED <<rawIn, pdOut>>
    /\ UNCHANGED muxVars

\* FrameEncoder::repair_len(measured_loss, run_len) on its own
RepairLen(measured_loss, run_len, additional_len) ==
    /\ \/ <<measured_loss, run_len>> \in DOMAIN rate_table
       \/ Cardinality(DOMAIN rate_table) < MaxEntries
    /\ LET r == repair_len(rate_table, measured_loss, run_len, additional_len)
           key == <<measured_loss, run_len>>
       IN  /\ rate_table' = r.table
           /\ lastRepair' = [loss |-> measured_loss, run_len |-> run_len, m |-> r.m]
           /\ firstRepair' = IF key \in DOMAIN firstRepair THEN firstRepair
                             ELSE firstRepair @@ (key :> r.m)
    /\ UNCHANGED <<rs_encoders, pkts, shards, dec, ncalls, lastIdx, lastLong, ret, fed, gotSome,
                   clean, inOrder, out, attempted>>
    /\ UNCHANGED <<rawIn, pdOut>>
    /\ UNCHANGED muxVars

\* Shards as they can come off the wire: any bytes, any length.
RawBytes == {0, 1, 2, 3, 255}

RawShards == UNION {[1..n -> RawBytes] : n \in 0..MaxRaw}

\* post_decode(raw) on its own, and decode(raw, 0) of a fresh decoder without
\* parity, which returns Some(vec![post_decode(raw)?]).
PostDecode(r) ==
    /\ rawIn' = r
    /\ pdOut' = post_decode(r)
    /\ \E d \in {decode(FrameDecoderNew(1, 0), r, 0)} :
          /\ dec' = d.dec
          /\ ret' = d.ret
    /\ UNCHANGED <<rate_table, rs_encoders, pkts, shards, lastRepair, firstRepair,
                   ncalls, lastIdx, lastLong, fed, gotSome, clean, inOrder, out,
                   attempted>>
    /\ UNCHANGED muxVars

NextFrame == \E r \in RawShards : PostDecode(r)

NextFec ==
    \/ \E l \in Losses, ps \in PacketLists, a \in 0..MaxAdd : Encode(l, ps, a)
    \/ NewDecoder
    \/ \E i \in 0..(MaxK + MaxAdd), long \in BOOLEAN : Decode(i, long)

NextRate ==
    \E l \in Losses, k \in RunLens, a \in 0..MaxAdd : RepairLen(l, k, a)


\* ================================================================ multiplex
Sids == 0..(IdSpace - 1)

\* ------------------------------------------------------------------ Message
Urel == [msg |-> "Urel", kind |-> "", stream_id |-> 0, seqno |-> 0, payload |-> "b"]

Rel(kind, stream_id, seqno, payload) ==
    [msg |-> "Rel", kind |-> kind, stream_id |-> stream_id, seqno |-> seqno,
     payload |-> payload]

\* Bytes that bincode::deserialize::<Message> rejects.
Malformed == [msg |-> "Bad", kind |-> "", stream_id |-> 0, seqno |-> 0, payload |-> ""]

\* No frame: the step took none from the session. Of the kinds other than Syn
\* the actor tells Rst from the rest; "Data" stands for the rest.
NoFrame == [msg |-> "", kind |-> "", stream_id |-> 0, seqno |-> 0, payload |-> ""]

\* ---------------------------------------------------------------- ConnTable
get_stream(t, sid) == t[sid]

set_stream(t, id, handle) == [t EXCEPT ![id] = handle]

del_stream(t, id) == [t EXCEPT ![id] = 0]

\* sid_to_stream.len()
TableLen(t) == Cardinality({x \in Sids : t[x] # 0})

find_id_until_full(t) ==
    IF TableLen(t) >= IdSpace THEN {}
    ELSE {x \in Sids : get_stream(t, x) = 0}

\* find_id: None when the table holds all ids but one; otherwise the ids a
\* random pick can end the loop with.
find_id(t) ==
    IF TableLen(t) >= IdSpace - 1 THEN {}
    ELSE {x \in Sids : get_stream(t, x) = 0}

\* ------------------------------------------------------------------ RelConn
\* RelConn::new: the stream is the next element of streams. front says where
\* the front-handle is: with the actor's recv_evt, with an open request's
\* child, in conn_accept_send, with the consumer, or dropped.
NewStream(sid, state, front) ==
    [stream_id |-> sid, state |-> state, alive |-> TRUE, registered |-> FALSE,
     front |-> front, processed |-> <<>>]

processNewestFirst(ss, handle, frame) ==
    [ss EXCEPT ![handle].processed = <<frame>> \o @]

\* handle.process(msg): the stream takes the frame after those it has.
process(ss, handle, frame) ==
    [ss EXCEPT ![handle].processed = Append(@, frame)]

RstReplyAlways(kind, stream_id) == <<Rel("Rst", stream_id, 0, "")>>

\* The answer to a frame for a stream_id that has no entry.
RstReply(kind, stream_id) ==
    IF kind # "Rst" THEN <<Rel("Rst", stream_id, 0, "")>> ELSE <<>>

InitMux ==
    /\ pc = "select"
    /\ pending = 0
    /\ tab = [x \in Sids |-> 0]
    /\ streams = <<>>
    /\ children = <<>>
    /\ accept_q = <<>>
    /\ glob_q = <<>>
    /\ dead_q = <<>>
    /\ open_q = 0
    /\ urel_q = 0
    /\ nrecv = 0
    /\ opens = 0
    /\ lastFrame = NoFrame
    /\ lastSent = <<>>
    /\ synCount = [x \in Sids |-> 0]
    /\ synAcks = [x \in Sids |-> 0]
    /\ created = [x \in Sids |-> 0]
    /\ delivered = [x \in Sids |-> 0]
    /\ tainted = [x \in Sids |-> FALSE]
    /\ open_closed = FALSE
    /\ accept_closed = FALSE
    /\ urel_closed = FALSE
    /\ err = ""

Init == InitFec /\ InitMux

\* anyhow!("underlying session is dead")
SessionIsDead == "underlying session is dead"

\* The error of recv() on a channel that is closed and empty.
RecvError == "receiving from an empty and closed channel"

try_send_past_capacity(q, cap, closed) == q + 1

\* try_send on a channel that holds q of at most cap messages: an Err, and
\* the message dropped, when the channel is full or closed.
try_send(q, cap, closed) == IF closed \/ q >= cap THEN q ELSE q + 1

QuestionMarkIgnored(e) == "select"

\* recv_evt.or(..).await?: an Err of the event that completed ends the loop,
\* Ok(()) starts the next iteration.
QuestionMark(e) == IF e # "" THEN "stopped" ELSE "select"

\* The front-handle recv_evt holds is dropped with recv_evt when another
\* event of the select completes first.
DropPending(ss) ==
    IF pc = "accepting" THEN [ss EXCEPT ![pending].front = "dropped"] ELSE ss

\* ---------------------------------------------------------------- recv_evt
\* session.recv_bytes() yields None: the ? ends multiplex with the error.
SessionDead ==
    /\ pc = "select"
    /\ pc' = QuestionMark(SessionIsDead)
    /\ err' = SessionIsDead
    /\ lastFrame' = NoFrame
    /\ lastSent' = <<>>
    /\ UNCHANGED <<pending, tab, streams, children, accept_q, glob_q, dead_q, open_q,
                   urel_q, nrecv, opens, synCount, synAcks, created, delivered, tainted>>
    /\ UNCHANGED chanVars
    /\ UNCHANGED fecVars

\* A frame that does not deserialize is dropped.
RecvMalformed ==
    /\ pc = "select"
    /\ nrecv < MaxRecv
    /\ nrecv' = nrecv + 1
    /\ lastFrame' = Malformed
    /\ lastSent' = <<>>
    /\ UNCHANGED <<pc, pending, tab, streams, children, accept_q, glob_q, dead_q, open_q,
                   urel_q, opens, synCount, synAcks, created, delivered, tainted>>
    /\ UNCHANGED <<chanVars, err>>
    /\ UNCHANGED fecVars

\* Message::Urel: try_send, the payload dropped when it fails.
RecvUrel ==
    /\ pc = "select"
    /\ nrecv < MaxRecv
    /\ nrecv' = nrecv + 1
    /\ lastFrame' = Urel
    /\ lastSent' = <<>>
    /\ urel_q' = try_send(urel_q, UrelCap, urel_closed)
    /\ UNCHANGED <<pc, pending, tab, streams, children, accept_q, glob_q, dead_q, open_q,
                   opens, synCount, synAcks, created, delivered, tainted>>
    /\ UNCHANGED <<chanVars, err>>
    /\ UNCHANGED fecVars

\* Message::Rel { kind: Syn } for a stream_id that has an entry: REACCEPT.
RecvSynKnown(stream_id) ==
    /\ pc = "select"
    /\ nrecv < MaxRecv
    /\ get_stream(tab, stream_id) # 0
    /\ nrecv' = nrecv + 1
    /\ lastFrame' = Rel("Syn", stream_id, 5, "edge")
    /\ lastSent' = <<Rel("SynAck", stream_id, 0, "")>>
    /\ synCount' = [synCount EXCEPT ![stream_id] = @ + 1]
    /\ synAcks' = [synAcks EXCEPT ![stream_id] = @ + 1]
    /\ UNCHANGED <<pc, pending, tab, streams, children, accept_q, glob_q, dead_q, open_q,
                   urel_q, opens, created, delivered, tainted>>
    /\ UNCHANGED <<chanVars, err>>
    /\ UNCHANGED fecVars

\* Message::Rel { kind: Syn } for a stream_id that has no entry: ACCEPT, up
\* to RelConn::new. The table is written in the next step of recv_evt.
RecvSynNew(stream_id) ==
    /\ pc = "select"
    /\ nrecv < MaxRecv
    /\ get_stream(tab, stream_id) = 0
    /\ nrecv' = nrecv + 1
    /\ lastFrame' = Rel("Syn", stream_id, 5, "edge")
    /\ lastSent' = <<>>
    /\ synCount' = [synCount EXCEPT ![stream_id] = @ + 1]
    /\ streams' = Append(streams, NewStream(stream_id, "SynReceived", "actor"))
    /\ pending' = Len(streams) + 1
    /\ pc' = "storing"
    /\ UNCHANGED <<tab, children, accept_q, glob_q, dead_q, open_q, urel_q, opens,
                   synAcks, created, delivered, tainted>>
    /\ UNCHANGED <<chanVars, err>>
    /\ UNCHANGED fecVars

\* conn_tab.set_stream(stream_id, new_conn_back), then the first poll of
\* conn_accept_send.send(new_conn): it completes when the channel has room,
\* and with an Err, which drop() discards with new_conn, when it is closed.
StoreAndAccept ==
    /\ pc = "storing"
    /\ LET sid == streams[pending].stream_id
           room == ~accept_closed /\ Len(accept_q) < AcceptCap
           wait == ~accept_closed /\ Len(accept_q) >= AcceptCap
       IN  /\ tab' = set_stream(tab, sid, pending)
           /\ created' = [created EXCEPT ![sid] = @ + 1]
           /\ streams' = [streams EXCEPT ![pending].registered = TRUE,
                                         ![pending].front =
                                             IF room THEN "queued"
                                             ELSE IF wait THEN "actor"
                                             ELSE "dropped"]
           /\ accept_q' = IF room THEN Append(accept_q, pending) ELSE accept_q
           /\ delivered' = IF room THEN [delivered EXCEPT ![sid] = @ + 1] ELSE delivered
           /\ pc' = IF wait THEN "accepting" ELSE "select"
           /\ pending' = IF wait THEN pending ELSE 0
    /\ UNCHANGED <<children, glob_q, dead_q, open_q, urel_q, nrecv, opens, synCount,
                   synAcks, tainted>>
    /\ lastFrame' = NoFrame
    /\ lastSent' = <<>>
    /\ UNCHANGED <<chanVars, err>>
    /\ UNCHANGED fecVars

\* conn_accept_send.send(new_conn) completes once the consumer made room.
AcceptSent ==
    /\ pc = "accepting"
    /\ ~accept_closed
    /\ Len(accept_q) < AcceptCap
    /\ accept_q' = Append(accept_q, pending)
    /\ streams' = [streams EXCEPT ![pending].front = "queued"]
    /\ delivered' = [delivered EXCEPT ![streams[pending].stream_id] = @ + 1]
    /\ pc' = "select"
    /\ pending' = 0
    /\ UNCHANGED <<tab, children, glob_q, dead_q, open_q, urel_q, nrecv, opens,
                   synCount, synAcks, created, tainted>>
    /\ lastFrame' = NoFrame
    /\ lastSent' = <<>>
    /\ UNCHANGED <<chanVars, err>>
    /\ UNCHANGED fecVars

\* Message::Rel of another kind: handed to the stream that has the entry, or
\* answered with Rst (unless it is an Rst itself). The frame's seqno is its
\* place in the order of arrival, which tells two frames of a stream apart.
RecvRel(kind, stream_id) ==
    /\ pc = "select"
    /\ nrecv < MaxRecv
    /\ kind # "Syn"
    /\ nrecv' = nrecv + 1
    /\ lastFrame' = Rel(kind, stream_id, nrecv + 1, "edge")
    /\ LET handle == get_stream(tab, stream_id)
       IN  IF handle # 0
           THEN /\ streams' = process(streams, handle,
                                      Rel(kind, stream_id, nrecv + 1, "edge"))
                /\ lastSent' = <<>>
           ELSE /\ streams' = streams
                /\ lastSent' = RstReply(kind, stream_id)
    /\ UNCHANGED <<pc, pending, tab, children, accept_q, glob_q, dead_q, open_q, urel_q,
                   opens, synCount, synAcks, created, delivered, tainted>>
    /\ UNCHANGED <<chanVars, err>>
    /\ UNCHANGED fecVars

\* ---------------------------------------------------------------- send_evt
SendEvt ==
    /\ pc \in {"select", "accepting"}
    /\ glob_q # <<>>
    /\ lastSent' = <<Head(glob_q)>>
    /\ glob_q' = Tail(glob_q)
    /\ lastFrame' = NoFrame
    /\ streams' = DropPending(streams)
    /\ pc' = "select"
    /\ pending' = 0
    /\ UNCHANGED <<tab, children, accept_q, dead_q, open_q, urel_q, nrecv, opens,
                   synCount, synAcks, created, delivered, tainted>>
    /\ UNCHANGED <<chanVars, err>>
    /\ UNCHANGED fecVars

\* ----------------------------------------------------------- conn_open_evt
\* The request is taken and its child task spawned.
ConnOpenEvt ==
    /\ pc \in {"select", "accepting"}
    /\ open_q > 0
    /\ open_q' = open_q - 1
    /\ children' = Append(children, [at |-> "find_id", stream_id |-> 0, conn |-> 0])
    /\ lastFrame' = NoFrame
    /\ lastSent' = <<>>
    /\ streams' = DropPending(streams)
    /\ pc' = "select"
    /\ pending' = 0
    /\ UNCHANGED <<tab, accept_q, glob_q, dead_q, urel_q, nrecv, opens, synCount,
                   synAcks, created, delivered, tainted>>
    /\ UNCHANGED <<chanVars, err>>
    /\ UNCHANGED fecVars

\* The child: conn_tab.find_id() and RelConn::new. No id: the child returns.
ChildFindId(c) ==
    /\ c \in DOMAIN children
    /\ children[c].at = "find_id"
    /\ \/ /\ find_id(tab) = {}
          /\ children' = [children EXCEPT ![c].at = "returned"]
          /\ UNCHANGED <<streams, tainted>>
       \/ \E id \in find_id(tab) :
             /\ streams' = Append(streams, NewStream(id, "SynSent", "child"))
             /\ children' = [children EXCEPT ![c] =
                                [at |-> "set_stream", stream_id |-> id,
                                 conn |-> Len(streams) + 1]]
             /\ tainted' = [tainted EXCEPT ![id] = TRUE]
    /\ UNCHANGED <<pc, pending, tab, accept_q, glob_q, dead_q, open_q, urel_q, nrecv,
                   opens, synCount, synAcks, created, delivered>>
    /\ lastFrame' = NoFrame
    /\ lastSent' = <<>>
    /\ UNCHANGED <<chanVars, err>>
    /\ UNCHANGED fecVars

\* The child: conn_tab.set_stream(stream_id, conn_back).
ChildSetStream(c) ==
    /\ c \in DOMAIN children
    /\ children[c].at = "set_stream"
    /\ tab' = set_stream(tab, children[c].stream_id, children[c].conn)
    /\ streams' = [streams EXCEPT ![children[c].conn].registered = TRUE]
    /\ children' = [children EXCEPT ![c].at = "send_syn"]
    /\ UNCHANGED <<pc, pending, accept_q, glob_q, dead_q, open_q, urel_q, nrecv, opens,
                   synCount, synAcks, created, delivered, tainted>>
    /\ lastFrame' = NoFrame
    /\ lastSent' = <<>>
    /\ UNCHANGED <<chanVars, err>>
    /\ UNCHANGED fecVars

\* The child: glob_send.send(Syn), which waits for room and fails once the
\* actor is gone (glob_recv dropped).
ChildSendSyn(c) ==
    /\ c \in DOMAIN children
    /\ children[c].at = "send_syn"
    /\ \/ /\ pc # "stopped"
          /\ Len(glob_q) < GlobCap
          /\ glob_q' = Append(glob_q, Rel("Syn", children[c].stream_id, 0, ""))
       \/ /\ pc = "stopped"
          /\ glob_q' = glob_q
    /\ children' = [children EXCEPT ![c].at = "returned"]
    /\ UNCHANGED <<pc, pending, tab, streams, accept_q, dead_q, open_q, urel_q, nrecv,
                   opens, synCount, synAcks, created, delivered,
                   tainted>>
    /\ lastFrame' = NoFrame
    /\ lastSent' = <<>>
    /\ UNCHANGED <<chanVars, err>>
    /\ UNCHANGED fecVars

\* ---------------------------------------------------------------- dead_evt
DeadEvt ==
    /\ pc \in {"select", "accepting"}
    /\ dead_q # <<>>
    /\ tab' = del_stream(tab, Head(dead_q))
    /\ dead_q' = Tail(dead_q)
    /\ lastFrame' = NoFrame
    /\ lastSent' = <<>>
    /\ streams' = DropPending(streams)
    /\ pc' = "select"
    /\ pending' = 0
    /\ UNCHANGED <<children, accept_q, glob_q, open_q, urel_q, nrecv, opens, synCount,
                   synAcks, created, delivered, tainted>>
    /\ UNCHANGED <<chanVars, err>>
    /\ UNCHANGED fecVars

\* -------------------------------------------------------------- environment
\* A stream's state machine ends: its death callback sends its stream_id
\* (try_send, which fails once the actor is gone).
Die(u) ==
    /\ u \in DOMAIN streams
    /\ streams[u].alive
    /\ streams[u].registered
    /\ streams' = [streams EXCEPT ![u].alive = FALSE]
    /\ dead_q' = IF pc # "stopped" THEN Append(dead_q, streams[u].stream_id) ELSE dead_q
    /\ tainted' = [tainted EXCEPT ![streams[u].stream_id] = TRUE]
    /\ UNCHANGED <<pc, pending, tab, children, accept_q, glob_q, open_q, urel_q, nrecv,
                   opens, synCount, synAcks, created, delivered>>
    /\ lastFrame' = NoFrame
    /\ lastSent' = <<>>
    /\ UNCHANGED <<chanVars, err>>
    /\ UNCHANGED fecVars

\* A stream's state machine pushes a frame to glob_send (the SynAck of a
\* SynReceived stream, data of another).
StreamSend(u) ==
    /\ u \in DOMAIN streams
    /\ streams[u].alive
    /\ streams[u].registered
    /\ pc # "stopped"
    /\ Len(glob_q) < GlobCap
    /\ glob_q' = Append(glob_q,
                        Rel(IF streams[u].state = "SynReceived" THEN "SynAck" ELSE "Data",
                            streams[u].stream_id, 0, ""))
    /\ UNCHANGED <<pc, pending, tab, streams, children, accept_q, dead_q, open_q, urel_q,
                   nrecv, opens, synCount, synAcks, created,
                   delivered, tainted>>
    /\ lastFrame' = NoFrame
    /\ lastSent' = <<>>
    /\ UNCHANGED <<chanVars, err>>
    /\ UNCHANGED fecVars

\* A caller sends an open request on conn_open_recv's channel.
OpenRequest ==
    /\ opens < MaxOpens
    /\ pc # "stopped"
    /\ ~open_closed
    /\ opens' = opens + 1
    /\ open_q' = open_q + 1
    /\ UNCHANGED <<pc, pending, tab, streams, children, accept_q, glob_q, dead_q, urel_q,
                   nrecv, synCount, synAcks, created, delivered,
                   tainted>>
    /\ lastFrame' = NoFrame
    /\ lastSent' = <<>>
    /\ UNCHANGED <<chanVars, err>>
    /\ UNCHANGED fecVars

\* The consumer of conn_accept_send takes a front-handle.
AcceptTake ==
    /\ accept_q # <<>>
    /\ accept_q' = Tail(accept_q)
    /\ streams' = [streams EXCEPT ![Head(accept_q)].front = "accepted"]
    /\ UNCHANGED <<pc, pending, tab, children, glob_q, dead_q, open_q, urel_q, nrecv,
                   opens, synCount, synAcks, created, delivered,
                   tainted>>
    /\ lastFrame' = NoFrame
    /\ lastSent' = <<>>
    /\ UNCHANGED <<chanVars, err>>
    /\ UNCHANGED fecVars

\* The consumer of urel_recv_send takes a payload.
UrelTake ==
    /\ urel_q > 0
    /\ urel_q' = urel_q - 1
    /\ UNCHANGED <<pc, pending, tab, streams, children, accept_q, glob_q, dead_q, open_q,
                   nrecv, opens, synCount, synAcks, created,
                   delivered, tainted>>
    /\ lastFrame' = NoFrame
    /\ lastSent' = <<>>
    /\ UNCHANGED <<chanVars, err>>
    /\ UNCHANGED fecVars

NextMux ==
    \/ SessionDead
    \/ RecvMalformed
    \/ RecvUrel
    \/ \E s \in Sids : RecvSynKnown(s)
    \/ \E s \in Sids : RecvSynNew(s)
    \/ StoreAndAccept
    \/ AcceptSent
    \/ \E k \in {"Data", "Rst"}, s \in Sids : RecvRel(k, s)
    \/ SendEvt
    \/ ConnOpenEvt
    \/ \E c \in 1..MaxOpens : ChildFindId(c)
    \/ \E c \in 1..MaxOpens : ChildSetStream(c)
    \/ \E c \in 1..MaxOpens : ChildSendSyn(c)
    \/ DeadEvt
    \/ \E u \in 1..(MaxRecv + MaxOpens) : Die(u)
    \/ \E u \in 1..(MaxRecv + MaxOpens) : StreamSend(u)
    \/ OpenRequest
    \/ AcceptTake
    \/ UrelTake

\* ------------------------------------------------- the channels' far ends
\* The pending conn_accept_send.send(new_conn) ends with an Err: the channel
\* was closed meanwhile. new_conn is dropped with it.
AcceptFailed ==
    /\ pc = "accepting"
    /\ accept_closed
    /\ streams' = [streams EXCEPT ![pending].front = "dropped"]
    /\ pc' = "select"
    /\ pending' = 0
    /\ lastFrame' = NoFrame
    /\ lastSent' = <<>>
    /\ UNCHANGED <<tab, children, accept_q, glob_q, dead_q, open_q, urel_q, nrecv, opens,
                   synCount, synAcks, created, delivered, tainted>>
    /\ UNCHANGED <<chanVars, err>>
    /\ UNCHANGED fecVars

\* conn_open_recv.recv() on the closed and empty channel is an Err, which the
\* ? of conn_open_evt returns and the ? of the select passes on.
ConnOpenClosed ==
    /\ pc \in {"select", "accepting"}
    /\ open_closed
    /\ open_q = 0
    /\ pc' = QuestionMark(RecvError)
    /\ err' = RecvError
    /\ streams' = DropPending(streams)
    /\ pending' = 0
    /\ lastFrame' = NoFrame
    /\ lastSent' = <<>>
    /\ UNCHANGED <<tab, children, accept_q, glob_q, dead_q, open_q, urel_q, nrecv, opens,
                   synCount, synAcks, created, delivered, tainted>>
    /\ UNCHANGED chanVars
    /\ UNCHANGED fecVars

\* A run closes one of the three channels.
NoneClosed == ~open_closed /\ ~accept_closed /\ ~urel_closed

\* The last sender of conn_open_recv's channel is dropped.
CloseOpen ==
    /\ pc # "stopped"
    /\ NoneClosed
    /\ open_closed' = TRUE
    /\ lastFrame' = NoFrame
    /\ lastSent' = <<>>
    /\ UNCHANGED <<pc, pending, tab, streams, children, accept_q, glob_q, dead_q, open_q,
                   urel_q, nrecv, opens, synCount, synAcks, created, delivered, tainted>>
    /\ UNCHANGED <<accept_closed, urel_closed, err>>
    /\ UNCHANGED fecVars

\* The receiver of conn_accept_send's channel is dropped, and with it the
\* front-handles nobody took.
CloseAccept ==
    /\ pc # "stopped"
    /\ NoneClosed
    /\ accept_closed' = TRUE
    /\ accept_q' = <<>>
    /\ streams' = [u \in DOMAIN streams |->
                      IF streams[u].front = "queued"
                      THEN [streams[u] EXCEPT !.front = "dropped"]
                      ELSE streams[u]]
    /\ lastFrame' = NoFrame
    /\ lastSent' = <<>>
    /\ UNCHANGED <<pc, pending, tab, children, glob_q, dead_q, open_q, urel_q, nrecv,
                   opens, synCount, synAcks, created, delivered, tainted>>
    /\ UNCHANGED <<open_closed, urel_closed, err>>
    /\ UNCHANGED fecVars

\* The receiver of urel_recv_send's channel is dropped.
CloseUrel ==
    /\ pc # "stopped"
    /\ NoneClosed
    /\ urel_closed' = TRUE
    /\ urel_q' = 0
    /\ lastFrame' = NoFrame
    /\ lastSent' = <<>>
    /\ UNCHANGED <<pc, pending, tab, streams, children, accept_q, glob_q, dead_q, open_q,
                   nrecv, opens, synCount, synAcks, created, delivered, tainted>>
    /\ UNCHANGED <<open_closed, accept_closed, err>>
    /\ UNCHANGED fecVars

NextClose ==
    \/ NextMux
    \/ AcceptFailed
    \/ ConnOpenClosed
    \/ CloseOpen
    \/ CloseAccept
    \/ CloseUrel

SpecFec == Init /\ [][NextFec]_vars

SpecRate == Init /\ [][NextRate]_vars

SpecFrame == Init /\ [][NextFrame]_vars

SpecMux == Init /\ [][NextMux]_vars

SpecClose == Init /\ [][NextClose]_vars

\* ------------------------------------------------------------------ claims
HasDecoder == dec # NoDecoder

K == Len(pkts)

M == Len(shards) - Len(pkts)

\* C1, as stated: once a decode call has returned Some(_), every later decode
\* call on the same decoder returns None.
C1_SingleUse ==
    [][(gotSome /\ ncalls' = ncalls + 1) => ret'.tag = "None"]_vars

\* C1, amended: once a decode call has reconstructed (done is set on a decoder
\* with parity shards), every later decode call returns None.
C1_DoneIsFinal ==
    [][(HasDecoder /\ dec.parity_shards > 0 /\ dec.done /\ ncalls' = ncalls + 1)
          => ret'.tag = "None"]_vars

\* A decoder with parity that reconstructed, and a later call that got None.
C1_Witness ==
    /\ HasDecoder /\ dec.parity_shards > 0 /\ dec.done
    /\ gotSome /\ ret.tag = "None"

\* C2: a fresh decoder with parity (k + m <= 128) that was fed at least k of
\* the encoder's shards, each once and at its index, in any order, has
\* returned all k original packets.
C2_LossyRoundTrip ==
    (/\ HasDecoder /\ M > 0 /\ K + M <= DecoderMaxShards
     /\ clean /\ Cardinality(fed) >= K)
        => \A i \in 1..K : pkts[i] \in out

\* C3: while a decoder with parity has been fed fewer than k distinct shard
\* indices, no call has reached the reconstruction and done is false, a call
\* that returned Some(_) was a data-shard call and returned exactly that
\* shard's packet, and a parity-shard call returned None.
C3_Insufficient ==
    (/\ HasDecoder /\ M > 0 /\ ncalls > 0
     /\ Cardinality(fed \cap 0..(K + M - 1)) < K)
        => /\ ~dec.done
           /\ ~attempted
           /\ ret.tag = "Some" => (lastIdx < K /\ ret.val = <<pkts[lastIdx + 1]>>)
           /\ lastIdx >= K => ret.tag = "None"

\* A parity shard was fed and answered None, then a data shard was fed and
\* returned, with fewer than k indices fed.
C3_Witness ==
    /\ HasDecoder /\ M > 0
    /\ Cardinality(fed) < K
    /\ \E i \in fed : i >= K /\ i < K + M
    /\ lastIdx < K /\ ret.tag = "Some"

\* The length of the pkt of the call a step makes.
PktLen(long) == Len(shards[1]) + (IF long THEN 1 ELSE 0)

\* C4: a decode call whose pkt_idx >= k + m, or whose pkt length differs from
\* the first admitted shard's length, or that is made after done, returns
\* None and leaves every field of the decoder as it was.
C4_RejectedUnchanged ==
    [][(/\ HasDecoder
        /\ ncalls' = ncalls + 1
        /\ \/ lastIdx' >= K + M
           \/ dec.done
           \/ dec.present_count > 0 /\ Len(dec.space[1]) # PktLen(lastLong'))
          => (ret' = None /\ dec' = dec)]_vars

\* C5: encode returns shards of one length L = max packet length + 2, the
\* first k of them [le16(len)][body][zeros]; a fresh decoder fed the first k
\* shards in index order returns exactly packet i on call i.
C5_Lossless ==
    /\ shards # <<>> =>
          LET L == MaxOf([i \in 1..K |-> Len(pkts[i])]) + 2
          IN  /\ M >= 0
              /\ \A i \in 1..Len(shards) : Len(shards[i]) = L
              /\ \A i \in 1..K :
                    /\ shards[i][1] = Len(pkts[i]) % 256
                    /\ shards[i][2] = Len(pkts[i]) \div 256
                    /\ \A j \in 1..Len(pkts[i]) : shards[i][2 + j] = pkts[i][j]
                    /\ \A j \in (Len(pkts[i]) + 3)..L : shards[i][j] = 0
    /\ (HasDecoder /\ inOrder /\ ncalls >= 1 /\ ncalls <= K)
          => ret = Some(<<pkts[ncalls]>>)

\* All data shards of a block with parity and padding were fed in order.
C5_Witness ==
    /\ HasDecoder /\ inOrder /\ ncalls = K /\ K >= 2 /\ M >= 1
    /\ \E i \in 1..K : Len(pkts[i]) + 2 < Len(shards[i])
    /\ ret = Some(<<pkts[K]>>)

\* C6: the parity count repair_len returns is at most min(255 - k, k), so
\* k + m <= 255, and a repeated call with the same (measured_loss, k) returns
\* what the first one did.
C6_RateCap ==
    lastRepair.run_len >= 1 =>
        LET k == lastRepair.run_len
            m == lastRepair.m
        IN  /\ m <= 255 - k
            /\ m <= k
            /\ k + m <= 255
            /\ m = firstRepair[<<lastRepair.loss, k>>]

\* The memoised search result is larger than the library's cap allows.
C6_Witness ==
    /\ lastRepair.run_len = 254
    /\ lastRepair.m = 1
    /\ rate_table[<<lastRepair.loss, 254>>] = 2

\* ------------------------------------------------------------ multiplex claims
\* C7: SYN idempotence. For n >= 1 inbound Syn frames with the same stream_id s
\* (s not in the table before the first, no death notification for s, and no
\* open-request child that picked s), once the actor is back at its select
\* exactly one front-handle for s was delivered on conn_accept_send, exactly
\* one table entry for s was created, and n - 1 SynAck frames for s were sent.
C7_SynIdempotence ==
    \A s \in Sids :
        (pc = "select" /\ ~tainted[s] /\ synCount[s] >= 1)
            => /\ delivered[s] = 1
               /\ created[s] = 1
               /\ synAcks[s] = synCount[s] - 1

\* C8: RST suppression. A step that takes a reliable frame of a kind other
\* than Syn whose stream_id has no entry sends exactly one
\* Rel{Rst, stream_id, seqno 0, empty payload} when the kind is not Rst and
\* nothing when it is Rst; the table is unchanged and no stream is created.
C8_RstSuppression ==
    [][(/\ nrecv' = nrecv + 1
        /\ lastFrame'.msg = "Rel"
        /\ lastFrame'.kind # "Syn"
        /\ get_stream(tab, lastFrame'.stream_id) = 0)
          => /\ lastSent' = IF lastFrame'.kind # "Rst"
                            THEN <<[msg |-> "Rel", kind |-> "Rst",
                                    stream_id |-> lastFrame'.stream_id,
                                    seqno |-> 0, payload |-> ""]>>
                            ELSE <<>>
             /\ tab' = tab
             /\ streams' = streams]_vars

\* A Data frame for a stream_id without entry was just answered with one Rst,
\* while the table holds an entry for another stream_id.
C8_Witness ==
    /\ lastFrame.msg = "Rel"
    /\ lastFrame.kind = "Data"
    /\ get_stream(tab, lastFrame.stream_id) = 0
    /\ \E x \in Sids : get_stream(tab, x) # 0
    /\ lastSent = <<Rel("Rst", lastFrame.stream_id, 0, "")>>

C10_UniqueId ==
    [][\A c \in DOMAIN children :
          (children[c].at = "set_stream" /\ children'[c].at = "send_syn")
              => get_stream(tab, children[c].stream_id) = 0]_vars

\* C11: per-stream inbound ordering. A step that takes a reliable non-Syn
\* frame whose stream_id has an entry passes it to the stream of that entry,
\* after the frames that stream has, and to no other; no other step passes a
\* frame to a stream. So every stream has frames of its own stream_id only,
\* in the order of their arrival, none twice.
C11_InboundOrder ==
    [][/\ \A u \in DOMAIN streams :
            LET was == streams[u].processed
                now == streams'[u].processed
            IN  IF /\ nrecv' = nrecv + 1
                   /\ lastFrame'.msg = "Rel"
                   /\ lastFrame'.kind # "Syn"
                   /\ get_stream(tab, lastFrame'.stream_id) = u
                THEN now = Append(was, lastFrame')
                ELSE now = was
       /\ \A u \in DOMAIN streams' :
            LET now == streams'[u].processed
            IN  /\ \A i \in DOMAIN now :
                      /\ now[i].stream_id = streams'[u].stream_id
                      /\ now[i].kind # "Syn"
                /\ \A i, j \in DOMAIN now : i < j => now[i].seqno < now[j].seqno]_vars

\* A stream was passed two frames.
C11_Witness ==
    \E u \in DOMAIN streams :
        /\ Len(streams[u].processed) = 2
        /\ streams[u].processed[1].seqno < streams[u].processed[2].seqno

\* C12: session death. The step in which session.recv_bytes() yields None
\* ends the loop with the error, sending nothing and leaving the table; once
\* multiplex returned that error the actor takes no frame from the session,
\* sends none, takes nothing from its channels, stores no front-handle, and
\* the table changes only by a child's set_stream.
C12_SessionDeath ==
    [][/\ (err = "" /\ err' = SessionIsDead)
             => /\ pc' = "stopped"
                /\ lastSent' = <<>>
                /\ tab' = tab
       /\ err = SessionIsDead
             => /\ pc' = "stopped"
                /\ err' = err
                /\ lastSent' = <<>>
                /\ nrecv' = nrecv
                /\ glob_q' = glob_q
                /\ dead_q' = dead_q
                /\ open_q' = open_q
                /\ Len(accept_q') <= Len(accept_q)
                /\ children' = children => tab' = tab]_vars

\* multiplex returned the session's error while an outbound frame and a
\* death notification were waiting.
C12_Witness ==
    /\ err = SessionIsDead
    /\ pc = "stopped"
    /\ glob_q # <<>>
    /\ dead_q # <<>>

\* C13: the unreliable path never back-pressures the actor. The step that
\* takes an inbound Urel frame ends back at the select without an error,
\* with the table, the streams and the outbound queue as they were and
\* nothing sent; the payload is dropped when urel_recv_send is full or
\* closed and queued otherwise.
C13_UrelNoBackPressure ==
    [][(nrecv' = nrecv + 1 /\ lastFrame' = Urel)
          => /\ pc' = "select"
             /\ err' = ""
             /\ tab' = tab
             /\ streams' = streams
             /\ glob_q' = glob_q
             /\ lastSent' = <<>>
             /\ urel_q' = IF urel_closed \/ urel_q >= UrelCap
                          THEN urel_q
                          ELSE urel_q + 1]_vars

\* An Urel frame was just taken with urel_recv_send closed, an outbound frame
\* waiting and an entry in the table.
C13_Witness ==
    /\ lastFrame = Urel
    /\ urel_closed
    /\ urel_q = 0
    /\ pc = "select"
    /\ err = ""
    /\ glob_q # <<>>
    /\ \E x \in Sids : get_stream(tab, x) # 0

\* C14: accept hand-off. The front-handle of every stream that an inbound Syn
\* created and stored in the table is with recv_evt, in conn_accept_send or
\* with the consumer: none was dropped undelivered, and no entry of the table
\* is that of such a stream.
C14_AcceptHandOff ==
    /\ \A u \in DOMAIN streams :
          (streams[u].state = "SynReceived" /\ streams[u].registered)
              => streams[u].front # "dropped"
    /\ \A x \in Sids :
          (get_stream(tab, x) # 0 /\ streams[get_stream(tab, x)].state = "SynReceived")
              => streams[get_stream(tab, x)].front # "dropped"

\* ------------------------------------------------------------ framing claims
\* C15: post_decode rejects corrupt framing as a value. For a shard shorter
\* than 2 bytes, or whose little-endian prefix l has l + 2 > its length,
\* post_decode returns None and so does decode of a decoder without parity;
\* for any other shard post_decode returns exactly bytes [2, 2 + l).
C15_CorruptIsNone ==
    IF Len(rawIn) < 2 \/ (rawIn[1] + 256 * rawIn[2]) + 2 > Len(rawIn)
    THEN pdOut = None /\ ret = None
    ELSE /\ pdOut = Some([i \in 1..(rawIn[1] + 256 * rawIn[2]) |-> rawIn[2 + i]])
         /\ ret = Some(<<pdOut.val>>)

\* The packets of the data indices no call has fed yet, in index order.
MissingPkts ==
    LET idxs == SelectSeq([i \in 1..K |-> i], LAMBDA i : (i - 1) \notin fed)
    IN  [j \in 1..Len(idxs) |-> pkts[idxs[j]]]

\* C16: no re-emission on reconstruction. With parity and every call so far
\* feeding the encoder's shard of a new index: the call that feeds a parity
\* shard when k indices are present sets done and returns exactly the
\* packets of the data indices not fed before, in index order; a call that
\* feeds a data shard returns that packet alone and does not set done. So
\* the k data indices are returned once each: those fed by their own call,
\* the others by the reconstruction, k packets in all.
C16_NoReEmission ==
    [][(HasDecoder /\ M > 0 /\ ~dec.done /\ clean' /\ ncalls' = ncalls + 1)
          => /\ (lastIdx' >= K /\ Cardinality(fed') >= K)
                   => /\ dec'.done
                      /\ ret' = Some(MissingPkts)
                      /\ Len(ret'.val) + Cardinality(fed \cap 0..(K - 1)) = K
             /\ lastIdx' < K
                   => /\ ~dec'.done
                      /\ ret' = Some(<<pkts[lastIdx' + 1]>>)]_vars

\* A reconstruction returned some but not all of the k packets after data
\* shards were fed on their own.
C16_Witness ==
    /\ HasDecoder
    /\ M > 0
    /\ clean
    /\ attempted
    /\ dec.done
    /\ lastIdx >= K
    /\ ret.tag = "Some"
    /\ Len(ret.val) >= 1
    /\ Len(ret.val) < K

\* ------------------------------------------------------------ open requests
\* The actor sent the initial Syn of child c to the session: the child pushed
\* it and glob_recv no longer holds it.
SynWentOut(c) ==
    /\ children[c].at = "returned"
    /\ children[c].conn # 0
    /\ \A i \in DOMAIN glob_q :
          ~(glob_q[i].kind = "Syn" /\ glob_q[i].stream_id = children[c].stream_id)

\* No stream with this stream_id has died, so no death notification for it
\* was sent or processed.
NoDeath(sid) ==
    \A u \in DOMAIN streams : streams[u].stream_id = sid => streams[u].alive

\* C17: registration precedes the Syn. A child that is about to push its Syn
\* has stored its stream in the table; and an inbound frame for that
\* stream_id that arrives after the actor sent the Syn, with no death
\* notification for the id, is passed to that stream and not answered.
C17_RegisteredBeforeSyn ==
    [][\A c \in DOMAIN children :
          /\ children[c].at = "send_syn" => streams[children[c].conn].registered
          /\ (/\ SynWentOut(c)
              /\ NoDeath(children[c].stream_id)
              /\ nrecv' = nrecv + 1
              /\ lastFrame'.msg = "Rel"
              /\ lastFrame'.kind # "Syn"
              /\ lastFrame'.stream_id = children[c].stream_id)
                => /\ lastSent' = <<>>
                   /\ streams'[children[c].conn].processed =
                          Append(streams[children[c].conn].processed, lastFrame')]_vars

\* C18: stream-id exhaustion. The step in which a child calls find_id while
\* the table holds all ids but one (or more) ends the child: no stream is
\* created, the table, the outbound queue and the actor are as they were,
\* and the child stays ended. With fewer entries the id the child gets is
\* not a key of the table at that moment.
C18_Exhaustion ==
    [][\A c \in DOMAIN children :
          /\ (children[c].at = "find_id" /\ children'[c].at # "find_id")
                => IF Cardinality({x \in Sids : tab[x] # 0}) >= IdSpace - 1
                   THEN /\ children'[c] = [at |-> "returned", stream_id |-> 0, conn |-> 0]
                        /\ streams' = streams
                        /\ tab' = tab
                        /\ glob_q' = glob_q
                        /\ pc' = pc
                        /\ err' = err
                   ELSE /\ children'[c].at = "set_stream"
                        /\ tab[children'[c].stream_id] = 0
          /\ (children[c].at = "returned" /\ children[c].conn = 0)
                => children'[c] = children[c]]_vars

\* A child ended without an id while the table held all ids but one and the
\* actor was running.
C18_Witness ==
    /\ pc = "select"
    /\ err = ""
    /\ Cardinality({x \in Sids : tab[x] # 0}) = IdSpace - 1
    /\ \E c \in DOMAIN children :
          children[c] = [at |-> "returned", stream_id |-> 0, conn |-> 0]
    /\ \A u \in DOMAIN streams : streams[u].state = "SynReceived"
    /\ glob_q = <<>>

\* ------------------------------------------------------- the channels' ends
\* C19: the loop stops only because of session death. Whatever happens to
\* the far ends of conn_open_recv, conn_accept_send and urel_recv_send,
\* multiplex is running or has returned the session's error.
C19_OnlySessionDeath ==
    /\ err \in {"", SessionIsDead}
    /\ pc = "stopped" => err = SessionIsDead

\* ------------------------------------------------------------- accounting
\* The data indices whose packet some call has returned, when every call fed
\* the encoder's shard of a new index: those fed by their own call, and all
\* of them once a reconstruction has run.
ReturnedData ==
    IF M > 0 /\ dec.done THEN K ELSE Cardinality(fed \cap 0..(K - 1))

\* C20: decoder accounting. With well-formed shards each fed at most once,
\* good_pkts() + lost_pkts() = k and good_pkts() is at most the number of
\* data packets the calls so far have returned.
C20_Accounting ==
    (HasDecoder /\ clean)
        => /\ good_pkts(dec) + lost_pkts(dec) = K
           /\ good_pkts(dec) <= ReturnedData

====
